---------------------------- MODULE Spec2Model ----------------------------
(***************************************************************************)
(* Model of the intellig-k8s log pipeline: the redaction filter            *)
(* (backend/src/utils/secrets.ts), the analysis buffers, the LogStreamer   *)
(* registry with the /ws/logs handler of the server, and the viewer-side   *)
(* analysis component.  Texts are sequences of one-character strings.      *)
(***************************************************************************)
EXTENDS Integers, Sequences, FiniteSets, TLC

VARIABLES
    \* redaction filter, exercised as a pure function
    text,       \* the input handed to redactSecrets
    secret,     \* the secret value the input was built around
    out1,       \* redactSecrets(text)
    out2,       \* redactSecrets(redactSecrets(text))
    rpc,        \* "in" | "once" | "twice" | "asked"
    userPrompt, \* the user message of the request analyzeStream builds
    \* server process (backend/src/server.ts) and its LogStreamer instances
    proc,           \* "up" | "stopping" | "exited" | "crashed"
    logStreamer,    \* the global logStreamer: 0 is null, i > 0 the i-th instance
    activeStreams,  \* activeStreams of each instance: key -> stream (0: no entry)
    logBuffer,      \* AIAnalyst.logBuffer of the global aiAnalyst
    \* per /ws/logs connection; the stream a connection's start call creates
    \* is named by the connection
    cstate,         \* "new" | "open" | "closed" (readyState)
    cmode,          \* "none" | "demo" | "noctx" | "real"
    copts,          \* the LogStreamOptions built from the query string
    streamId,       \* the handler's let streamId: 0 is undefined, else the key
    call,           \* the startLogStream call: "none" | "awaiting" | "resolved" | "failed"
    inst,           \* the LogStreamer instance the call runs on (this)
    stream,         \* logStream: "none" | "created" | "open" | "destroyed" | "ended" | "errored"
    upstream,       \* chunks upstream has written to logStream (count)
    sent,           \* frames passed to connection.send, in order
    demoIndex,      \* index of sendNextLog
    demoTimer,      \* a setTimeout(sendNextLog) is pending
    pingInterval,   \* the setInterval of the keepalive is set
    pings,          \* calls of connection.ping made so far (count)
    \* the analysis buffers taken alone
    bside,          \* the buffer under insertion: "idle" | "backend" | "viewer"
    logBufferRef,   \* logBufferRef.current of the viewer (LogsPage)
    inserted,       \* every line inserted into the buffer so far, in order
    proposed,       \* calls of analyzeNewLogs made by ws.onmessage (count)
    \* the AIAnalyst component of the viewer (frontend/src/components/AIAnalyst.tsx)
    now,                \* Date.now(), in milliseconds
    messages,           \* state messages: <<[id, type, content, isStreaming]>>
    isAnalyzing,        \* state isAnalyzing
    isStreaming,        \* state isStreaming
    lastAnalysisTime,   \* state lastAnalysisTime: -1 is null
    seen,               \* the state values the closures of the last render hold
    abortControllerRef, \* abortControllerRef.current: 0 is null, else the request
    requests,           \* the streamAnalysis calls made, in order
    \* the POST /api/ai/explain handler of the server, per HTTP request
    handler,    \* "none" | "awaiting" | "streaming" | "ended" | "failed"
    client,     \* the viewer's side of the request: "none" | "waiting" | "aborted"
    pulled,     \* chunks the handler has pulled from the reasoning-service stream
    written,    \* the fragments passed to reply.raw.write, in order
    replied,    \* how the reply was finished: "no" | "end" | "error"
    \* LogsPage of the viewer (frontend/src/lib/utils.ts): its WebSockets
    sockets,            \* per socket created: "none" | "connecting" | "open" | "closing" | "closed"
    wsRef,              \* wsRef.current: 0 is null, else the socket
    pageIsStreaming,    \* state isStreaming of LogsPage
    pageSeen            \* the isStreaming the closures of the last render hold

redactVars == <<text, secret, out1, out2, rpc, userPrompt>>
procVars == <<proc, logStreamer, activeStreams, logBuffer>>
connVars == <<cstate, cmode, copts, streamId, call, inst, stream, upstream, sent,
              demoIndex, demoTimer, pingInterval, pings>>
serverVars == <<procVars, connVars>>

bufferVars == <<bside, logBufferRef, inserted, proposed>>

analystVars == <<now, messages, isAnalyzing, isStreaming, lastAnalysisTime, seen,
                 abortControllerRef, requests>>

explainVars == <<handler, client, pulled, written, replied>>

pageVars == <<sockets, wsRef, pageIsStreaming, pageSeen>>

vars == <<redactVars, serverVars, bufferVars, analystVars, explainVars, pageVars>>

nonRedactVars == <<serverVars, bufferVars, analystVars, explainVars, pageVars>>
nonServerVars == <<redactVars, bufferVars, analystVars, explainVars, pageVars>>
nonBufferVars == <<redactVars, connVars, proc, logStreamer, activeStreams, analystVars,
                   explainVars, pageVars>>
nonAnalystVars == <<redactVars, serverVars, bufferVars, explainVars, pageVars>>
nonExplainVars == <<redactVars, serverVars, bufferVars, analystVars, pageVars>>
nonPageVars == <<redactVars, serverVars, bufferVars, analystVars, explainVars>>

(***************************************************************************)
(* Characters and character classes of the regular expressions.            *)
(***************************************************************************)
UpperSeq == <<"A", "B", "C", "D", "E", "F", "G", "H", "I", "J", "K", "L", "M",
              "N", "O", "P", "Q", "R", "S", "T", "U", "V", "W", "X", "Y", "Z">>
LowerSeq == <<"a", "b", "c", "d", "e", "f", "g", "h", "i", "j", "k", "l", "m",
              "n", "o", "p", "q", "r", "s", "t", "u", "v", "w", "x", "y", "z">>
Upper == {UpperSeq[i] : i \in 1..26}
Lower == {LowerSeq[i] : i \in 1..26}
Digit == {"0", "1", "2", "3", "4", "5", "6", "7", "8", "9"}
\* \s of the regular expressions
WhiteSpace == {" ", "\t", "\n", "\r", "\f"}
Quote == {"\"", "'"}

\* the i flag: letters compare without case
ToLower(c) == IF c \in Upper THEN LowerSeq[CHOOSE i \in 1..26 : UpperSeq[i] = c] ELSE c

Min(a, b) == IF a < b THEN a ELSE b
Max(a, b) == IF a > b THEN a ELSE b

\* the literal lit occurs in t at index i (letters without case when ci)
LitAt(t, i, lit, ci) ==
    /\ i >= 1
    /\ i + Len(lit) - 1 <= Len(t)
    /\ \A j \in 1..Len(lit) :
          IF ci THEN ToLower(t[i + j - 1]) = ToLower(lit[j]) ELSE t[i + j - 1] = lit[j]

\* first index >= i of t whose character is outside class (Len(t)+1 if none)
RECURSIVE RunEnd(_, _, _)
RunEnd(t, i, class) ==
    IF i > Len(t) \/ t[i] \notin class THEN i ELSE RunEnd(t, i + 1, class)

\* first index >= i of t whose character is inside class (Len(t)+1 if none)
RECURSIVE RunEndNot(_, _, _)
RunEndNot(t, i, class) ==
    IF i > Len(t) \/ t[i] \in class THEN i ELSE RunEndNot(t, i + 1, class)

\* smallest index j >= i where pat occurs in hay, 0 if none
RECURSIVE IndexOf(_, _, _)
IndexOf(hay, pat, i) ==
    IF i + Len(pat) - 1 > Len(hay) THEN 0
    ELSE IF SubSeq(hay, i, i + Len(pat) - 1) = pat THEN i
    ELSE IndexOf(hay, pat, i + 1)

Contains(hay, pat) == IndexOf(hay, pat, 1) # 0

\* String.prototype.replace(searchString, replacement): the first occurrence only
StringReplace(s, search, rep) ==
    LET j == IndexOf(s, search, 1) IN
    IF j = 0 THEN s
    ELSE SubSeq(s, 1, j - 1) \o rep \o SubSeq(s, j + Len(search), Len(s))

REDACTED == <<"[", "R", "E", "D", "A", "C", "T", "E", "D", "]">>

(***************************************************************************)
(* SECRET_PATTERNS, in the order of the array.  A match is a record        *)
(* [ok, last, caps]: last is the index of the match's last character and   *)
(* caps the captured groups.                                               *)
(***************************************************************************)
NoMatch == [ok |-> FALSE, last |-> 0, caps |-> <<>>]

\* (password|passwd|pwd|secret|key|token|auth|api[_-]?key|bearer)
KeyWords1 == << <<"p", "a", "s", "s", "w", "o", "r", "d">>,
                <<"p", "a", "s", "s", "w", "d">>,
                <<"p", "w", "d">>,
                <<"s", "e", "c", "r", "e", "t">>,
                <<"k", "e", "y">>,
                <<"t", "o", "k", "e", "n">>,
                <<"a", "u", "t", "h">>,
                <<"a", "p", "i", "k", "e", "y">>,
                <<"a", "p", "i", "_", "k", "e", "y">>,
                <<"a", "p", "i", "-", "k", "e", "y">>,
                <<"b", "e", "a", "r", "e", "r">> >>

\* (authorization|x-api-key|x-auth-token)
KeyWords2 == << <<"a", "u", "t", "h", "o", "r", "i", "z", "a", "t", "i", "o", "n">>,
                <<"x", "-", "a", "p", "i", "-", "k", "e", "y">>,
                <<"x", "-", "a", "u", "t", "h", "-", "t", "o", "k", "e", "n">> >>

\* length of the first alternative of kws that occurs at i, 0 if none
KeyWordLen(t, i, kws) ==
    LET hits == {k \in 1..Len(kws) : LitAt(t, i, kws[k], TRUE)} IN
    IF hits = {} THEN 0
    ELSE Len(kws[CHOOSE k \in hits : \A h \in hits : k <= h])

\* ["']?([^\s"']+)["']? from index b on, the match having started at i with key
ValueTail(t, i, key, b) ==
    LET c == IF b <= Len(t) /\ t[b] \in Quote THEN b + 1 ELSE b
        e == RunEndNot(t, c, WhiteSpace \cup Quote)
        f == IF e <= Len(t) /\ t[e] \in Quote THEN e ELSE e - 1
    IN  IF e = c THEN NoMatch
        ELSE [ok |-> TRUE, last |-> f, caps |-> <<key, SubSeq(t, c, e - 1)>>]

\* /(password|...|bearer)\s*[:=]\s*["']?([^\s"']+)["']?/gi at index i
MatchAssign(t, i) ==
    LET k == KeyWordLen(t, i, KeyWords1)
        a == RunEnd(t, i + k, WhiteSpace)
    IN  IF k = 0 \/ a > Len(t) \/ t[a] \notin {":", "="} THEN NoMatch
        ELSE ValueTail(t, i, SubSeq(t, i, i + k - 1), RunEnd(t, a + 1, WhiteSpace))

\* /(authorization|x-api-key|x-auth-token):\s*["']?([^\s"']+)["']?/gi at index i
MatchHeader(t, i) ==
    LET k == KeyWordLen(t, i, KeyWords2)
        a == i + k
    IN  IF k = 0 \/ a > Len(t) \/ t[a] # ":" THEN NoMatch
        ELSE ValueTail(t, i, SubSeq(t, i, i + k - 1), RunEnd(t, a + 1, WhiteSpace))

\* /AKIA[0-9A-Z]{16}/g at index i
MatchAkia(t, i) ==
    IF LitAt(t, i, <<"A", "K", "I", "A">>, FALSE)
       /\ RunEnd(t, i + 4, Digit \cup Upper) >= i + 20
    THEN [ok |-> TRUE, last |-> i + 19, caps |-> <<>>]
    ELSE NoMatch

\* /[A-Za-z0-9/+=]{40}/g at index i
MatchAws40(t, i) ==
    IF RunEnd(t, i, Upper \cup Lower \cup Digit \cup {"/", "+", "="}) >= i + 40
    THEN [ok |-> TRUE, last |-> i + 39, caps |-> <<>>]
    ELSE NoMatch

\* /eyJ[A-Za-z0-9_-]+\.[A-Za-z0-9_-]+\.[A-Za-z0-9_-]+/g at index i
MatchJwt(t, i) ==
    LET cls == Upper \cup Lower \cup Digit \cup {"_", "-"}
        a == RunEnd(t, i + 3, cls)
        b == RunEnd(t, a + 1, cls)
        c == RunEnd(t, b + 1, cls)
    IN  IF /\ LitAt(t, i, <<"e", "y", "J">>, FALSE)
           /\ a > i + 3 /\ a <= Len(t) /\ t[a] = "."
           /\ b > a + 1 /\ b <= Len(t) /\ t[b] = "."
           /\ c > b + 1
        THEN [ok |-> TRUE, last |-> c - 1, caps |-> <<>>]
        ELSE NoMatch

\* /[A-Za-z0-9+/]{20,}={0,2}/g at index i
MatchBase64(t, i) ==
    LET a == RunEnd(t, i, Upper \cup Lower \cup Digit \cup {"+", "/"})
        b == Min(RunEnd(t, a, {"="}), a + 2)
    IN  IF a >= i + 20 THEN [ok |-> TRUE, last |-> b - 1, caps |-> <<>>]
        ELSE NoMatch

SECRET_PATTERNS == <<"assign", "header", "akia", "aws40", "jwt", "base64">>

MatchAt(p, t, i) ==
    CASE p = "assign" -> MatchAssign(t, i)
      [] p = "header" -> MatchHeader(t, i)
      [] p = "akia"   -> MatchAkia(t, i)
      [] p = "aws40"  -> MatchAws40(t, i)
      [] p = "jwt"    -> MatchJwt(t, i)
      [] p = "base64" -> MatchBase64(t, i)

\* (match, ...groups) => groups.length >= 2 ? match.replace(groups[1], '[REDACTED]')
\*                                          : '[REDACTED]'
\* groups holds the captures, then the offset of the match, then the whole string
Replacer(match, caps, offset, string) ==
    LET groups == caps \o <<offset, string>> IN
    IF Len(groups) >= 2 THEN StringReplace(match, groups[2], REDACTED) ELSE REDACTED

\* string.replace(pattern /g, replacer): leftmost matches, left to right
RECURSIVE ReplaceAll(_, _, _)
ReplaceAll(p, t, i) ==
    IF i > Len(t) THEN <<>>
    ELSE LET m == MatchAt(p, t, i) IN
         IF m.ok
         THEN Replacer(SubSeq(t, i, m.last), m.caps, i - 1, t) \o ReplaceAll(p, t, m.last + 1)
         ELSE <<t[i]>> \o ReplaceAll(p, t, i + 1)

\* SECRET_PATTERNS.forEach(pattern => redacted = redacted.replace(pattern, ...))
RECURSIVE RedactFrom(_, _)
RedactFrom(t, k) ==
    IF k > Len(SECRET_PATTERNS) THEN t
    ELSE RedactFrom(ReplaceAll(SECRET_PATTERNS[k], t, 1), k + 1)

redactSecrets(t) == RedactFrom(t, 1)

(***************************************************************************)
(* AIAnalyst.analyzeStream: the user message of the request to the         *)
(* reasoning service.  A prompt is the sequence of the parts its template  *)
(* literal concatenates, a fixed part being a text of one piece.           *)
(***************************************************************************)
\* a bug analyzeStream could have: the excerpt goes into the prompt as received
rawLogs(recentLogChunk) == recentLogChunk

\* const sanitizedLogs = redactSecrets(recentLogChunk)
sanitizedLogs(recentLogChunk) == redactSecrets(recentLogChunk)

\* meta.namespace/meta.pod/meta.container of the requests
MetaText == <<"n", "s", "/", "p", "o", "d", "/", "c">>

\* the code fence of the template (three grave accents)
Fence == "FENCE"

\* const userPrompt = question ? 'User question: ...' : 'Analyze these ...'
\* (an empty question is falsy)
userPromptOf(question, recentLogChunk) ==
    IF question.present /\ question.val # <<>>
    THEN << <<"User question: ">>, question.val, <<"\n\nRecent logs from ">>, MetaText,
            <<":\n", Fence, "\n">>, sanitizedLogs(recentLogChunk), <<"\n", Fence>> >>
    ELSE << <<"Analyze these recent logs from ">>, MetaText,
            <<":\n", Fence, "\n">>, sanitizedLogs(recentLogChunk), <<"\n", Fence>> >>

\* the excerpt of a prompt: the part between its code fences
ExcerptOf(prompt) == prompt[Len(prompt) - 1]

(***************************************************************************)
(* AIAnalyst.logBuffer (backend/src/services/ai-analyst.ts).  A buffered   *)
(* line is [text, gate]: gate records whether the text is a result of      *)
(* redactSecrets.                                                          *)
(***************************************************************************)
maxBufferSize == 2000

\* t.split('\n'): the pieces between the separators, empty pieces included
RECURSIVE SplitFrom(_, _, _)
SplitFrom(t, i, sep) ==
    LET j == RunEndNot(t, i, {sep}) IN
    IF j > Len(t) THEN <<SubSeq(t, i, Len(t))>>
    ELSE <<SubSeq(t, i, j - 1)>> \o SplitFrom(t, j + 1, sep)

Split(t, sep) == SplitFrom(t, 1, sep)

\* lines.join('\n')
RECURSIVE Join(_, _)
Join(lines, sep) ==
    IF lines = <<>> THEN <<>>
    ELSE IF Len(lines) = 1 THEN lines[1]
    ELSE lines[1] \o <<sep>> \o Join(Tail(lines), sep)

\* line.trim() is a non-empty string
NonBlank(line) == \E i \in 1..Len(line) : line[i] \notin WhiteSpace

\* a bug the buffers could have: keeping the oldest lines when full
SliceFirst(buf, n) == IF Len(buf) > n THEN SubSeq(buf, 1, n) ELSE buf

\* logBuffer.slice(-n)
SliceLast(buf, n) == IF Len(buf) > n THEN SubSeq(buf, Len(buf) - n + 1, Len(buf)) ELSE buf

\* AIAnalyst.addLogChunk(logChunk)
addLogChunk(buf, logChunk, gate) ==
    LET lines == SelectSeq(Split(logChunk, "\n"), NonBlank)
        pushed == buf \o [i \in 1..Len(lines) |-> [text |-> lines[i], gate |-> gate]]
    IN  IF Len(pushed) > maxBufferSize THEN SliceLast(pushed, maxBufferSize) ELSE pushed

(***************************************************************************)
(* LogStreamer (backend/src/services/log-streamer.ts)                      *)
(***************************************************************************)
NConns == 2
NKeys == 2
MaxCtx == 2
MaxData == 2
MaxPing == 1

Conns == 1..NConns
Keys == 1..NKeys
Instances == 1..MaxCtx

Absent == [present |-> FALSE, val |-> <<>>]
Given(v) == [present |-> TRUE, val |-> v]

\* params.get(name) || undefined
OrUndefined(p) == IF p.present /\ p.val # <<>> THEN p ELSE Absent

DigitValue(c) == CHOOSE n \in 0..9 : <<"0", "1", "2", "3", "4", "5", "6", "7", "8", "9">>[n + 1] = c

\* parseInt(digits, 10)
RECURSIVE ParseInt(_)
ParseInt(d) ==
    IF d = <<>> THEN 0 ELSE 10 * ParseInt(SubSeq(d, 1, Len(d) - 1)) + DigitValue(d[Len(d)])

\* a bug parseDuration could have: the pattern without its $ anchor and unit check
parseDurationLoose(duration) ==
    LET e == RunEnd(duration, 1, Digit) IN
    IF e > 1
    THEN [ok |-> TRUE, seconds |-> ParseInt(SubSeq(duration, 1, e - 1)), message |-> <<>>]
    ELSE [ok |-> FALSE, seconds |-> 0,
          message |-> <<"Invalid duration format: ">> \o duration]

\* LogStreamer.parseDuration: /^(\d+)([smh])$/, then the unit's factor
parseDuration(duration) ==
    LET e == RunEnd(duration, 1, Digit) IN
    IF e > 1 /\ e = Len(duration) /\ duration[e] \in {"s", "m", "h"}
    THEN [ok |-> TRUE,
          seconds |-> ParseInt(SubSeq(duration, 1, e - 1)) *
                      (CASE duration[e] = "s" -> 1
                         [] duration[e] = "m" -> 60
                         [] duration[e] = "h" -> 3600),
          message |-> <<>>]
    ELSE [ok |-> FALSE, seconds |-> 0,
          message |-> <<"Invalid duration format: ">> \o duration]

\* a bug stopLogStream could have: a key with no entry stops every stream
stopEveryStream(as, st, i, k) ==
    IF as[i][k] # 0
    THEN [as |-> [as EXCEPT ![i][k] = 0], st |-> [st EXCEPT ![as[i][k]] = "destroyed"]]
    ELSE [as |-> [as EXCEPT ![i] = [j \in Keys |-> 0]],
          st |-> [s \in Conns |-> IF \E j \in Keys : as[i][j] = s THEN "destroyed"
                                  ELSE st[s]]]

\* LogStreamer.stopLogStream(streamId) on instance i: the maps and streams after it
stopLogStream(as, st, i, k) ==
    LET s == as[i][k] IN
    IF s # 0
    THEN [as |-> [as EXCEPT ![i][k] = 0], st |-> [st EXCEPT ![s] = "destroyed"]]
    ELSE [as |-> as, st |-> st]

\* a bug the end and error handlers could have: leaving the entry in the map
deleteNothing(as, i, k) == as

\* this.activeStreams.delete(streamId) on instance i
deleteStream(as, i, k) == [as EXCEPT ![i][k] = 0]

\* LogStreamer.stopAllStreams() on instance i
stopAllStreams(as, st, i) ==
    [as |-> [as EXCEPT ![i] = [k \in Keys |-> 0]],
     st |-> [s \in Conns |-> IF \E k \in Keys : as[i][k] = s THEN "destroyed" ELSE st[s]]]

\* new RegExp(source, 'i') does not throw: the sources used are a literal word
\* or an unbalanced parenthesis
RegExpValid(source) == \A i \in 1..Len(source) : source[i] \in Upper \cup Lower \cup Digit

\* regex.test(line) for a literal word with the i flag
RegExpTest(source, line) ==
    \E j \in 1..(Len(line) - Len(source) + 1) : LitAt(line, j, source, TRUE)

\* frames handed to connection.send; n is the number of the upstream chunk
TextFrame(t, gate, n) == [kind |-> "text", text |-> t, gate |-> gate, n |-> n]
ErrorFrame(message) == [kind |-> "error", text |-> message, gate |-> FALSE, n |-> 0]
StreamEnded == [kind |-> "event", text |-> <<"stream_ended">>, gate |-> FALSE, n |-> 0]

\* MOCK_LOGS['image-pull-backoff'] (scenario=image-pull-backoff), a line being
\* one token
MOCK_LOGS == <<
    "2024-01-20T10:15:30.123Z kubelet Failed to pull image \"nginx:nonexistent\": rpc error: code = NotFound desc = failed to pull and unpack image \"docker.io/library/nginx:nonexistent\": failed to resolve reference \"docker.io/library/nginx:nonexistent\": docker.io/library/nginx:nonexistent: not found",
    "2024-01-20T10:15:31.456Z kubelet Error: ErrImagePull",
    "2024-01-20T10:15:32.789Z kubelet Back-off pulling image \"nginx:nonexistent\"",
    "2024-01-20T10:15:33.012Z kubelet Error: ImagePullBackOff" >>

\* what upstream writes: a plain line; a line with a secret and a second line
RawChunks == { <<"o", "k", "\n">>,
               <<"p", "w", "d", "=", "x", "1", "\n", "e", "r", "r", "\n">> }

\* the since and regex parameters of a query string: both absent; a valid
\* duration with a filter word; an empty since with a pattern that does not
\* compile; a duration with an unknown unit
QueryParams == { [since |-> Absent, regex |-> Absent],
                 [since |-> Given(<<"5", "m">>), regex |-> Given(<<"e", "r", "r">>)],
                 [since |-> Given(<<>>), regex |-> Given(<<"(">>)],
                 [since |-> Given(<<"5", "x">>), regex |-> Absent] }

NoOptions == [key |-> 0, since |-> Absent, regex |-> Absent]

\* the global aiAnalyst is constructed: MODEL_API_KEY is set (without it the
\* server differs only in leaving logBuffer empty)
aiAnalyst == TRUE

\* the state of the server's variables at start, the process being in state p
ServerState(p) ==
    /\ proc = p
    /\ logStreamer = 0
    /\ activeStreams = [i \in Instances |-> [k \in Keys |-> 0]]
    /\ logBuffer = <<>>
    /\ cstate = [c \in Conns |-> "new"]
    /\ cmode = [c \in Conns |-> "none"]
    /\ copts = [c \in Conns |-> NoOptions]
    /\ streamId = [c \in Conns |-> 0]
    /\ call = [c \in Conns |-> "none"]
    /\ inst = [c \in Conns |-> 0]
    /\ stream = [c \in Conns |-> "none"]
    /\ upstream = [c \in Conns |-> 0]
    /\ sent = [c \in Conns |-> <<>>]
    /\ demoIndex = [c \in Conns |-> 0]
    /\ demoTimer = [c \in Conns |-> FALSE]
    /\ pingInterval = [c \in Conns |-> FALSE]
    /\ pings = [c \in Conns |-> 0]

ServerInit == ServerState("up")

\* the process ends in state p: its memory and its sockets are gone
ProcessEnds(p) ==
    /\ proc' = p
    /\ logStreamer' = 0
    /\ activeStreams' = [i \in Instances |-> [k \in Keys |-> 0]]
    /\ logBuffer' = <<>>
    /\ cstate' = [c \in Conns |-> "new"]
    /\ cmode' = [c \in Conns |-> "none"]
    /\ copts' = [c \in Conns |-> NoOptions]
    /\ streamId' = [c \in Conns |-> 0]
    /\ call' = [c \in Conns |-> "none"]
    /\ inst' = [c \in Conns |-> 0]
    /\ stream' = [c \in Conns |-> "none"]
    /\ upstream' = [c \in Conns |-> 0]
    /\ sent' = [c \in Conns |-> <<>>]
    /\ demoIndex' = [c \in Conns |-> 0]
    /\ demoTimer' = [c \in Conns |-> FALSE]
    /\ pingInterval' = [c \in Conns |-> FALSE]
    /\ pings' = [c \in Conns |-> 0]

Running == proc \in {"up", "stopping"}

\* the chunks upstream has written so far, over all streams
RECURSIVE SumTo(_, _)
SumTo(f, n) == IF n = 0 THEN 0 ELSE f[n] + SumTo(f, n - 1)
Written == SumTo(upstream, NConns)

\* connections are numbered in the order they arrive
Arrives(c) ==
    /\ proc = "up"
    /\ cstate[c] = "new"
    /\ IF c = 1 THEN TRUE ELSE cstate[c - 1] # "new"

\* keys are numbered in the order they are first asked for
FreshOrUsed(k) == \A j \in 1..(k - 1) : \E c \in Conns : copts[c].key = j

\* a bug the callbacks could have: a frame overtaking the frames sent before it
SendFirstIfOpen(c, frame) ==
    IF cstate[c] = "open" THEN [sent EXCEPT ![c] = <<frame>> \o @] ELSE sent

\* a bug the callbacks could have: no readyState guard
SendAlways(c, frame) ==
    [sent EXCEPT ![c] = Append(@, frame)]

\* connection.send(frame) behind the readyState guard of the callbacks
SendIfOpen(c, frame) ==
    IF cstate[c] = "open" THEN [sent EXCEPT ![c] = Append(@, frame)] ELSE sent

\* /ws/logs with demo=true: the viewer sets no other parameter in demo mode
WsConnectDemo(c) ==
    /\ UNCHANGED nonServerVars
    /\ Arrives(c)
    /\ cstate' = [cstate EXCEPT ![c] = "open"]
    /\ cmode' = [cmode EXCEPT ![c] = "demo"]
    /\ demoTimer' = [demoTimer EXCEPT ![c] = TRUE]
    /\ UNCHANGED <<procVars, copts, streamId, call, inst, stream, upstream, sent,
                   demoIndex, pingInterval, pings>>

\* /ws/logs without demo while logStreamer is null
WsConnectNoContext(c, k, q) ==
    /\ UNCHANGED nonServerVars
    /\ Arrives(c)
    /\ FreshOrUsed(k)
    /\ logStreamer = 0
    /\ cstate' = [cstate EXCEPT ![c] = "open"]
    /\ cmode' = [cmode EXCEPT ![c] = "noctx"]
    /\ copts' = [copts EXCEPT ![c] = [key |-> k, since |-> OrUndefined(q.since),
                                      regex |-> OrUndefined(q.regex)]]
    /\ sent' = [sent EXCEPT ![c] = Append(@, ErrorFrame(<<"K8s context not set">>))]
    /\ UNCHANGED <<procVars, streamId, call, inst, stream, upstream, demoIndex,
                   demoTimer, pingInterval, pings>>

\* /ws/logs for a real stream: startLogStream runs up to its await (or throws
\* before it, and the promise's catch callback sends the error), then the close
\* handlers and the keepalive interval are registered
WsConnectReal(c, k, q) ==
    /\ UNCHANGED nonServerVars
    /\ Arrives(c)
    /\ FreshOrUsed(k)
    /\ logStreamer # 0
    /\ LET options == [key |-> k, since |-> OrUndefined(q.since),
                       regex |-> OrUndefined(q.regex)]
           stopped == stopLogStream(activeStreams, stream, logStreamer, k)
           dur == IF options.since.present THEN parseDuration(options.since.val)
                  ELSE [ok |-> TRUE, seconds |-> 0, message |-> <<>>]
       IN  /\ copts' = [copts EXCEPT ![c] = options]
           /\ activeStreams' = stopped.as
           /\ IF dur.ok
              THEN /\ stream' = [stopped.st EXCEPT ![c] = "created"]
                   /\ call' = [call EXCEPT ![c] = "awaiting"]
                   /\ sent' = sent
              ELSE /\ stream' = stopped.st
                   /\ call' = [call EXCEPT ![c] = "failed"]
                   /\ sent' = [sent EXCEPT ![c] =
                          Append(@, ErrorFrame(<<"Failed to start log stream: ">> \o dur.message))]
    /\ cstate' = [cstate EXCEPT ![c] = "open"]
    /\ cmode' = [cmode EXCEPT ![c] = "real"]
    /\ inst' = [inst EXCEPT ![c] = logStreamer]
    /\ pingInterval' = [pingInterval EXCEPT ![c] = TRUE]
    /\ UNCHANGED <<proc, logStreamer, logBuffer, streamId, upstream,
                   demoIndex, demoTimer, pings>>

\* await logApi.log(...) resolves: activeStreams.set, the handlers are attached,
\* the promise resolves and its then callback assigns streamId
LogOpened(c) ==
    /\ UNCHANGED nonServerVars
    /\ Running
    /\ call[c] = "awaiting"
    /\ activeStreams' = [activeStreams EXCEPT ![inst[c]][copts[c].key] = c]
    /\ stream' = [stream EXCEPT ![c] = "open"]
    /\ call' = [call EXCEPT ![c] = "resolved"]
    /\ streamId' = [streamId EXCEPT ![c] = copts[c].key]
    /\ UNCHANGED <<proc, logStreamer, logBuffer, cstate, cmode, copts, inst,
                   upstream, sent, demoIndex, demoTimer, pingInterval, pings>>

\* await logApi.log(...) rejects: the catch block rethrows, the promise's catch
\* callback sends the error
LogOpenFailed(c) ==
    /\ UNCHANGED nonServerVars
    /\ Running
    /\ call[c] = "awaiting"
    /\ call' = [call EXCEPT ![c] = "failed"]
    /\ stream' = [stream EXCEPT ![c] = "none"]
    /\ sent' = SendIfOpen(c, ErrorFrame(<<"Failed to start log stream: ", "HTTP request failed">>))
    /\ UNCHANGED <<procVars, cstate, cmode, copts, streamId, inst, upstream,
                   demoIndex, demoTimer, pingInterval, pings>>

\* logStream.on('data'): redactSecrets, the regex filter, then the onData callback
\* of the server (send behind the readyState guard, addLogChunk)
UpstreamData(c, chunk) ==
    /\ UNCHANGED nonServerVars
    /\ Running
    /\ stream[c] = "open"
    /\ Written < MaxData
    /\ LET sanitizedData == redactSecrets(chunk)
           rx == copts[c].regex
           filteredLines == SelectSeq(Split(sanitizedData, "\n"),
                                      LAMBDA line : RegExpTest(rx.val, line))
           data == IF rx.present THEN Join(filteredLines, "\n") ELSE sanitizedData
           forwards == ~rx.present \/ filteredLines # <<>>
       IN  IF rx.present /\ ~RegExpValid(rx.val)
           THEN \* new RegExp throws in the listener: an uncaught exception
                \* ends the process, and its state with it
                ProcessEnds("crashed")
           ELSE /\ upstream' = [upstream EXCEPT ![c] = @ + 1]
                /\ UNCHANGED <<proc, logStreamer, activeStreams, cstate, cmode, copts,
                               streamId, call, inst, stream, demoIndex, demoTimer,
                               pingInterval, pings>>
                /\ IF forwards /\ cstate[c] = "open"
                   THEN /\ sent' = [sent EXCEPT ![c] =
                                       Append(@, TextFrame(data, TRUE, upstream[c] + 1))]
                        /\ logBuffer' = IF aiAnalyst THEN addLogChunk(logBuffer, data, TRUE)
                                        ELSE logBuffer
                   ELSE UNCHANGED <<sent, logBuffer>>

\* logStream.on('end'): activeStreams.delete(streamId), then onEnd
UpstreamEnd(c) ==
    /\ UNCHANGED nonServerVars
    /\ Running
    /\ stream[c] = "open"
    /\ stream' = [stream EXCEPT ![c] = "ended"]
    /\ activeStreams' = deleteStream(activeStreams, inst[c], copts[c].key)
    /\ sent' = SendIfOpen(c, StreamEnded)
    /\ UNCHANGED <<proc, logStreamer, logBuffer, cstate, cmode, copts, streamId,
                   call, inst, upstream, demoIndex, demoTimer, pingInterval, pings>>

\* logStream.on('error'): activeStreams.delete(streamId), then onError
UpstreamError(c) ==
    /\ UNCHANGED nonServerVars
    /\ Running
    /\ stream[c] = "open"
    /\ stream' = [stream EXCEPT ![c] = "errored"]
    /\ activeStreams' = deleteStream(activeStreams, inst[c], copts[c].key)
    /\ sent' = SendIfOpen(c, ErrorFrame(<<"socket hang up">>))
    /\ UNCHANGED <<proc, logStreamer, logBuffer, cstate, cmode, copts, streamId,
                   call, inst, upstream, demoIndex, demoTimer, pingInterval, pings>>

\* the timer of the demo replay fires: sendNextLog
SendNextLog(c) ==
    /\ UNCHANGED nonServerVars
    /\ Running
    /\ demoTimer[c]
    /\ IF demoIndex[c] < Len(MOCK_LOGS) /\ cstate[c] = "open"
       THEN /\ sent' = [sent EXCEPT ![c] =
                   Append(@, TextFrame(<<MOCK_LOGS[demoIndex[c] + 1], "\n">>, FALSE,
                                       demoIndex[c] + 1))]
            /\ logBuffer' = IF aiAnalyst
                            THEN addLogChunk(logBuffer, <<MOCK_LOGS[demoIndex[c] + 1]>>, FALSE)
                            ELSE logBuffer
            /\ demoIndex' = [demoIndex EXCEPT ![c] = @ + 1]
            /\ demoTimer' = demoTimer
       ELSE /\ demoTimer' = [demoTimer EXCEPT ![c] = FALSE]
            /\ UNCHANGED <<sent, logBuffer, demoIndex>>
    /\ UNCHANGED <<proc, logStreamer, activeStreams, cstate, cmode, copts,
                   streamId, call, inst, stream, upstream, pingInterval, pings>>

\* the peer closes: the two close handlers of a real session (stopLogStream on the
\* current logStreamer when streamId is set, clearInterval); the demo and the
\* no-context branches return before registering any
ConnClose(c) ==
    /\ UNCHANGED nonServerVars
    /\ Running
    /\ cstate[c] = "open"
    /\ cstate' = [cstate EXCEPT ![c] = "closed"]
    /\ LET stopped == IF cmode[c] = "real" /\ streamId[c] # 0 /\ logStreamer # 0
                      THEN stopLogStream(activeStreams, stream, logStreamer, streamId[c])
                      ELSE [as |-> activeStreams, st |-> stream]
       IN  /\ activeStreams' = stopped.as
           /\ stream' = stopped.st
    /\ pingInterval' = [pingInterval EXCEPT ![c] = FALSE]
    /\ UNCHANGED <<proc, logStreamer, logBuffer, cmode, copts, streamId, call,
                   inst, upstream, sent, demoIndex, demoTimer, pings>>

\* the keepalive interval fires: ping behind the readyState guard, else the
\* interval clears itself
PingTimer(c) ==
    /\ UNCHANGED nonServerVars
    /\ Running
    /\ pingInterval[c]
    /\ SumTo(pings, NConns) < MaxPing
    /\ IF cstate[c] = "open"
       THEN /\ pings' = [pings EXCEPT ![c] = @ + 1]
            /\ pingInterval' = pingInterval
       ELSE /\ pingInterval' = [pingInterval EXCEPT ![c] = FALSE]
            /\ pings' = pings
    /\ UNCHANGED <<procVars, cstate, cmode, copts, streamId, call, inst, stream,
                   upstream, sent, demoIndex, demoTimer>>

\* POST /api/k8s/context: logStreamer = new LogStreamer(k8sConfig)
SetContext ==
    /\ UNCHANGED nonServerVars
    /\ proc = "up"
    /\ logStreamer < MaxCtx
    /\ logStreamer' = logStreamer + 1
    /\ UNCHANGED <<proc, activeStreams, logBuffer, connVars>>

\* SIGTERM or SIGINT: stopAllStreams on the current logStreamer, then the
\* handler awaits fastify.close()
Signal ==
    /\ UNCHANGED nonServerVars
    /\ proc = "up"
    /\ proc' = "stopping"
    /\ LET stopped == IF logStreamer # 0
                      THEN stopAllStreams(activeStreams, stream, logStreamer)
                      ELSE [as |-> activeStreams, st |-> stream]
       IN  /\ activeStreams' = stopped.as
           /\ stream' = stopped.st
    /\ UNCHANGED <<logStreamer, logBuffer, cstate, cmode, copts, streamId, call,
                   inst, upstream, sent, demoIndex, demoTimer, pingInterval, pings>>

\* fastify.close() has resolved: process.exit(0) ends the process, and its
\* state with it
ProcessExit ==
    /\ UNCHANGED nonServerVars
    /\ proc = "stopping"
    /\ ProcessEnds("exited")

ServerNext ==
    \/ \E c \in Conns : WsConnectDemo(c)
    \/ \E c \in Conns, k \in Keys, q \in QueryParams : WsConnectNoContext(c, k, q)
    \/ \E c \in Conns, k \in Keys, q \in QueryParams : WsConnectReal(c, k, q)
    \/ \E c \in Conns : LogOpened(c)
    \/ \E c \in Conns : LogOpenFailed(c)
    \/ \E c \in Conns, chunk \in RawChunks : UpstreamData(c, chunk)
    \/ \E c \in Conns : UpstreamEnd(c)
    \/ \E c \in Conns : UpstreamError(c)
    \/ \E c \in Conns : SendNextLog(c)
    \/ \E c \in Conns : ConnClose(c)
    \/ \E c \in Conns : PingTimer(c)
    \/ SetContext
    \/ Signal
    \/ ProcessExit

(***************************************************************************)
(* The two analysis buffers taken alone: AIAnalyst.logBuffer of the        *)
(* backend and logBufferRef of the viewer, under a sequence of insertions. *)
(* The n-th line inserted is the text "line n".                              *)
(***************************************************************************)
MaxInsert == 2004

ViewerBufferMax == 1000

DigitSeq == <<"0", "1", "2", "3", "4", "5", "6", "7", "8", "9">>

RECURSIVE NumberText(_)
NumberText(n) ==
    IF n < 10 THEN <<DigitSeq[n + 1]>>
    ELSE NumberText(n \div 10) \o <<DigitSeq[(n % 10) + 1]>>

LineText(n) == <<"l", "i", "n", "e", " ">> \o NumberText(n)

\* event.data.trim()
Trim(t) ==
    LET a == RunEnd(t, 1, WhiteSpace)
        b == CHOOSE j \in 0..Len(t) :
                 /\ \A i \in (j + 1)..Len(t) : t[i] \in WhiteSpace
                 /\ j > 0 => t[j] \notin WhiteSpace
    IN  IF a > Len(t) THEN <<>> ELSE SubSeq(t, a, b)

\* JSON.parse(event.data) returns: the control frames of the server are JSON
\* objects, and a text that is a number is JSON too
JsonParses(frame) ==
    \/ frame.kind \in {"error", "event"}
    \/ LET t == Trim(frame.text) IN t # <<>> /\ \A i \in 1..Len(t) : t[i] \in Digit

\* ws.onmessage of LogsPage, as far as logBufferRef goes
pushLine(buf, frame) ==
    IF JsonParses(frame) THEN buf
    ELSE LET logLine == Trim(frame.text) IN
         IF logLine = <<>> THEN buf
         ELSE LET next == Append(buf, logLine) IN
              IF Len(next) > ViewerBufferMax THEN SliceLast(next, ViewerBufferMax)
              ELSE next

\* ws.onmessage reaches the push: the frame is no JSON and not blank
pushes(frame) == ~JsonParses(frame) /\ Trim(frame.text) # <<>>

\* the AIAnalyst component is mounted: aiAnalystRef.current is set
aiAnalystRef == TRUE

\* if (aiAnalystRef.current && logBufferRef.current.length % 10 === 0), on the
\* buffer after the push
proposesTrigger(buf) == aiAnalystRef /\ Len(buf) % 10 = 0

\* the lines a chunk of the given shape carries, numbered from n + 1
ChunkShapes == {"one", "three", "none"}
ChunkLines(shape, n) ==
    CASE shape = "one" -> <<LineText(n + 1)>>
      [] shape = "three" -> <<LineText(n + 1), LineText(n + 2), LineText(n + 3)>>
      [] shape = "none" -> <<>>

\* the chunk itself: one line and a newline; three lines with a blank line
\* between the first two; a newline alone
ChunkText(shape, n) ==
    CASE shape = "one" -> LineText(n + 1) \o <<"\n">>
      [] shape = "three" -> LineText(n + 1) \o <<"\n", " ", "\n">> \o LineText(n + 2)
                            \o <<"\n">> \o LineText(n + 3)
      [] shape = "none" -> <<"\n">>

\* the frames a viewer receives: a log line, a blank frame, a line that is a
\* number, and the two control frames
FrameShapes == {"line", "blank", "number", "error", "ended"}
ViewerFrame(shape, n) ==
    CASE shape = "line" -> TextFrame(<<" ">> \o LineText(n + 1) \o <<"\n">>, TRUE, 0)
      [] shape = "blank" -> TextFrame(<<" ", "\n">>, TRUE, 0)
      [] shape = "number" -> TextFrame(<<"4", "2", "\n">>, TRUE, 0)
      [] shape = "error" -> ErrorFrame(<<"socket hang up">>)
      [] shape = "ended" -> StreamEnded

BufferInit ==
    /\ bside \in {"backend", "viewer"}
    /\ logBufferRef = <<>>
    /\ inserted = <<>>
    /\ proposed = 0

BufferIdle ==
    /\ bside = "idle"
    /\ logBufferRef = <<>>
    /\ inserted = <<>>
    /\ proposed = 0

\* aiAnalyst.addLogChunk(chunk)
AddLogChunk(shape) ==
    /\ UNCHANGED nonBufferVars
    /\ bside = "backend"
    /\ Len(inserted) + 3 <= MaxInsert
    /\ logBuffer' = addLogChunk(logBuffer, ChunkText(shape, Len(inserted)), TRUE)
    /\ inserted' = inserted \o ChunkLines(shape, Len(inserted))
    /\ UNCHANGED <<bside, logBufferRef, proposed>>

\* ws.onmessage(event) in the viewer
ViewerMessage(shape) ==
    /\ UNCHANGED nonBufferVars
    /\ bside = "viewer"
    /\ Len(inserted) < MaxInsert
    /\ logBufferRef' = pushLine(logBufferRef, ViewerFrame(shape, Len(inserted)))
    /\ proposed' = IF /\ pushes(ViewerFrame(shape, Len(inserted)))
                      /\ proposesTrigger(logBufferRef')
                   THEN proposed + 1 ELSE proposed
    /\ inserted' = IF shape = "line" THEN Append(inserted, LineText(Len(inserted) + 1))
                   ELSE inserted
    /\ UNCHANGED <<bside, logBuffer>>

(***************************************************************************)
(* AIAnalyst (frontend/src/components/AIAnalyst.tsx).  A request is a      *)
(* streamAnalysis call; the content of a message is the sequence of the    *)
(* fragments [req, k] written into it, k = 0 being the error text of the   *)
(* request.  The functions of the component read the state through the     *)
(* closures of the last render.                                            *)
(***************************************************************************)
MaxTicks == 2
ClockStep == 2500
MaxReq == 3
MaxFrag == 2

DebounceMs == 5000
MinLogLength == 50

Null == -1

\* a pod is selected while logs stream
selection == TRUE

InFlight == {"fetching", "reading"}

\* the logs a trigger proposes: blank, too short, long enough
ProposedLogs == { <<" ">>, <<"e", "r", "r">>, [i \in 1..MinLogLength |-> "x"] }

\* the text of the input field: empty or a question
UserInputs == { <<>>, <<"w", "h", "y", "?">> }

Message(id, type, streaming) ==
    [id |-> id, type |-> type, content |-> <<>>, isStreaming |-> streaming]

Content(r, n) == [k \in 1..n |-> [req |-> r, k |-> k]]
ErrorContent(r) == <<[req |-> r, k |-> 0]>>

\* updateMessage(messageId, content)
updateMessage(msgs, messageId, content) ==
    [i \in 1..Len(msgs) |->
        IF msgs[i].id = messageId THEN [msgs[i] EXCEPT !.content = content] ELSE msgs[i]]

\* setMessages(prev => prev.map(msg => msg.id === messageId ? {...msg, isStreaming: false} : msg))
markComplete(msgs, messageId) ==
    [i \in 1..Len(msgs) |->
        IF msgs[i].id = messageId THEN [msgs[i] EXCEPT !.isStreaming = FALSE] ELSE msgs[i]]

\* a bug streamAnalysis could have: the signal given to fetch but not kept for
\* the body, so that a response being read is not aborted
abortFetchOnly(rs, r) ==
    IF r # 0 /\ rs[r].state = "fetching" THEN [rs EXCEPT ![r].state = "aborted"] ELSE rs

\* a bug streamAnalysis could have: starting the new request without aborting
abortIgnored(rs, r) == rs

\* abortControllerRef.current.abort(): the pending fetch or read of request r
\* rejects with an AbortError; nothing happens to a request that has settled
abort(rs, r) ==
    IF r # 0 /\ rs[r].state \in InFlight THEN [rs EXCEPT ![r].state = "aborted"] ELSE rs

\* request r was in flight when a newer request started
Supersede(rs, before, r) ==
    IF r # 0 /\ before[r].state \in InFlight
    THEN [rs EXCEPT ![r].superseded = TRUE, ![r].gotThen = before[r].got]
    ELSE rs

AnalystInit ==
    /\ now = 0
    /\ messages = <<Message(<<"welcome">>, "system", FALSE)>>
    /\ isAnalyzing = FALSE
    /\ isStreaming = FALSE
    /\ lastAnalysisTime = Null
    /\ seen = [lastAnalysisTime |-> Null, isAnalyzing |-> FALSE, isStreaming |-> FALSE]
    /\ abortControllerRef = 0
    /\ requests = <<>>

AnalystIdle == AnalystInit

\* time passes
Tick ==
    /\ UNCHANGED nonAnalystVars
    /\ now < MaxTicks * ClockStep
    /\ now' = now + ClockStep
    /\ UNCHANGED <<messages, isAnalyzing, isStreaming, lastAnalysisTime, seen,
                   abortControllerRef, requests>>

\* the component renders again: useImperativeHandle and the handlers are
\* recreated over the current state
Render ==
    /\ UNCHANGED nonAnalystVars
    /\ seen' = [lastAnalysisTime |-> lastAnalysisTime, isAnalyzing |-> isAnalyzing,
                isStreaming |-> isStreaming]
    /\ seen' # seen
    /\ UNCHANGED <<now, messages, isAnalyzing, isStreaming, lastAnalysisTime,
                   abortControllerRef, requests>>

\* streamAnalysis(request, messageId) up to its await fetch, called by a
\* handler of the given kind that has appended newMessages; the rejection of
\* the aborted request runs its catch (a silent return) and the finally of its
\* caller before anything else happens
StartRequest(kind, messageId, newMessages) ==
    LET old == abortControllerRef
        aborted == abort(requests, old)
        cancelled == old # 0 /\ aborted[old].state # requests[old].state
        request == [kind |-> kind, messageId |-> messageId, state |-> "fetching",
                    at |-> now, got |-> 0, superseded |-> FALSE, gotThen |-> 0]
    IN  /\ messages' = messages \o newMessages
        /\ requests' = Append(Supersede(aborted, requests, old), request)
        /\ abortControllerRef' = Len(requests) + 1
        /\ isAnalyzing' = IF cancelled /\ requests[old].kind = "auto" THEN FALSE
                          ELSE IF kind = "auto" THEN TRUE ELSE isAnalyzing
        /\ isStreaming' = IF cancelled /\ requests[old].kind = "user" THEN FALSE
                          ELSE IF kind = "user" THEN TRUE ELSE isStreaming

\* analyzeNewLogs(logs) of the imperative handle, with analyzeLogsAutomatically
AnalyzeNewLogs(logs) ==
    /\ UNCHANGED nonAnalystVars
    /\ Len(requests) < MaxReq
    /\ UNCHANGED <<now, seen>>
    /\ IF seen.lastAnalysisTime # Null /\ now - seen.lastAnalysisTime < DebounceMs
       THEN UNCHANGED <<messages, isAnalyzing, isStreaming, lastAnalysisTime,
                        abortControllerRef, requests>>
       ELSE /\ lastAnalysisTime' = now
            /\ IF ~selection \/ ~NonBlank(logs) \/ seen.isAnalyzing
                  \/ Len(logs) < MinLogLength
               THEN UNCHANGED <<messages, isAnalyzing, isStreaming,
                                abortControllerRef, requests>>
               ELSE StartRequest("auto", <<"auto", now>>,
                                 <<Message(<<"auto", now>>, "assistant", TRUE)>>)

\* handleUserQuestion()
HandleUserQuestion(input) ==
    /\ UNCHANGED nonAnalystVars
    /\ Len(requests) < MaxReq
    /\ UNCHANGED <<now, seen, lastAnalysisTime>>
    /\ IF ~NonBlank(input) \/ seen.isStreaming
       THEN UNCHANGED <<messages, isAnalyzing, isStreaming, abortControllerRef, requests>>
       ELSE StartRequest("user", <<"assistant", now>>,
                         << [Message(<<"user", now>>, "user", FALSE) EXCEPT
                                 !.content = <<[req |-> 0, k |-> 0]>>],
                            Message(<<"assistant", now>>, "assistant", TRUE) >>)

\* the finally block of the caller of request r
Finally(r) ==
    /\ isAnalyzing' = IF requests[r].kind = "auto" THEN FALSE ELSE isAnalyzing
    /\ isStreaming' = IF requests[r].kind = "user" THEN FALSE ELSE isStreaming

\* await fetch resolves with an ok response that has a body
FetchOk(r) ==
    /\ UNCHANGED nonAnalystVars
    /\ r <= Len(requests)
    /\ requests[r].state = "fetching"
    /\ requests' = [requests EXCEPT ![r].state = "reading"]
    /\ UNCHANGED <<now, messages, isAnalyzing, isStreaming, lastAnalysisTime, seen,
                   abortControllerRef>>

\* await fetch rejects or resolves with a response that is not ok, or
\* reader.read() rejects: the catch block writes the error text
RequestFails(r) ==
    /\ UNCHANGED nonAnalystVars
    /\ r <= Len(requests)
    /\ requests[r].state \in InFlight
    /\ requests' = [requests EXCEPT ![r].state = "failed"]
    /\ messages' = markComplete(updateMessage(messages, requests[r].messageId,
                                              ErrorContent(r)),
                                requests[r].messageId)
    /\ Finally(r)
    /\ UNCHANGED <<now, lastAnalysisTime, seen, abortControllerRef>>

\* reader.read() resolves with a chunk: content += chunk, updateMessage
ReadChunk(r) ==
    /\ UNCHANGED nonAnalystVars
    /\ r <= Len(requests)
    /\ requests[r].state = "reading"
    /\ requests[r].got < MaxFrag
    /\ requests' = [requests EXCEPT ![r].got = @ + 1]
    /\ messages' = updateMessage(messages, requests[r].messageId,
                                 Content(r, requests[r].got + 1))
    /\ UNCHANGED <<now, isAnalyzing, isStreaming, lastAnalysisTime, seen,
                   abortControllerRef>>

\* reader.read() resolves with done: the message is marked complete
ReadDone(r) ==
    /\ UNCHANGED nonAnalystVars
    /\ r <= Len(requests)
    /\ requests[r].state = "reading"
    /\ requests' = [requests EXCEPT ![r].state = "complete"]
    /\ messages' = markComplete(messages, requests[r].messageId)
    /\ Finally(r)
    /\ UNCHANGED <<now, lastAnalysisTime, seen, abortControllerRef>>

AnalystNext ==
    \/ Tick
    \/ Render
    \/ \E logs \in ProposedLogs : AnalyzeNewLogs(logs)
    \/ \E input \in UserInputs : HandleUserQuestion(input)
    \/ \E r \in 1..MaxReq : FetchOk(r)
    \/ \E r \in 1..MaxReq : RequestFails(r)
    \/ \E r \in 1..MaxReq : ReadChunk(r)
    \/ \E r \in 1..MaxReq : ReadDone(r)

(***************************************************************************)
(* POST /api/ai/explain (backend/src/server.ts) with analyzeStream and     *)
(* streamToAsyncIterable of AIAnalyst: the handler awaits the stream of    *)
(* the reasoning service and copies its fragments to the raw reply.  The   *)
(* k-th chunk of the stream of request x carries the fragment [req, k].    *)
(***************************************************************************)
NExplain == 2
MaxChunk == 3

Explains == 1..NExplain

\* what a chunk of the reasoning service carries in choices[0].delta.content
ChunkContents == {"text", "empty"}

ExplainInit ==
    /\ handler = [x \in Explains |-> "none"]
    /\ client = [x \in Explains |-> "none"]
    /\ pulled = [x \in Explains |-> 0]
    /\ written = [x \in Explains |-> <<>>]
    /\ replied = [x \in Explains |-> "no"]

ExplainIdle == ExplainInit

\* requests are numbered in the order they arrive
ExplainArrives(x) ==
    /\ handler[x] = "none"
    /\ IF x = 1 THEN TRUE ELSE handler[x - 1] # "none"

\* the viewer posts a request: the handler runs up to await analyzeStream,
\* analyzeStream up to await openai.chat.completions.create
ExplainPost(x) ==
    /\ UNCHANGED nonExplainVars
    /\ ExplainArrives(x)
    /\ aiAnalyst
    /\ handler' = [handler EXCEPT ![x] = "awaiting"]
    /\ client' = [client EXCEPT ![x] = "waiting"]
    /\ UNCHANGED <<pulled, written, replied>>

\* create resolves: analyzeStream returns the iterable, the handler enters
\* its for await loop
ExplainOpened(x) ==
    /\ UNCHANGED nonExplainVars
    /\ handler[x] = "awaiting"
    /\ handler' = [handler EXCEPT ![x] = "streaming"]
    /\ UNCHANGED <<client, pulled, written, replied>>

\* create rejects, or the stream throws while the loop iterates: the catch
\* block of the handler sets code 500 and returns the error object
ExplainFails(x) ==
    /\ UNCHANGED nonExplainVars
    /\ handler[x] \in {"awaiting", "streaming"}
    /\ handler' = [handler EXCEPT ![x] = "failed"]
    /\ replied' = [replied EXCEPT ![x] = "error"]
    /\ UNCHANGED <<client, pulled, written>>

\* the loop pulls the next chunk of the stream: streamToAsyncIterable yields
\* its content unless it is empty, and the handler writes what is yielded
ExplainChunk(x, content) ==
    /\ UNCHANGED nonExplainVars
    /\ handler[x] = "streaming"
    /\ pulled[x] < MaxChunk
    /\ pulled' = [pulled EXCEPT ![x] = @ + 1]
    /\ written' = IF content = "empty" THEN written
                  ELSE [written EXCEPT ![x] = Append(@, [req |-> x, k |-> pulled[x] + 1])]
    /\ UNCHANGED <<handler, client, replied>>

\* the stream of the reasoning service is done: reply.raw.end()
ExplainEnd(x) ==
    /\ UNCHANGED nonExplainVars
    /\ handler[x] = "streaming"
    /\ handler' = [handler EXCEPT ![x] = "ended"]
    /\ replied' = [replied EXCEPT ![x] = "end"]
    /\ UNCHANGED <<client, pulled, written>>

\* the viewer aborts its fetch: the HTTP connection of the request closes.
\* The handler registers nothing on the request, the reply or its socket and
\* hands no signal to the reasoning service
ExplainAbort(x) ==
    /\ UNCHANGED nonExplainVars
    /\ client[x] = "waiting"
    /\ replied[x] = "no"
    /\ client' = [client EXCEPT ![x] = "aborted"]
    /\ UNCHANGED <<handler, pulled, written, replied>>

ExplainNext ==
    \/ \E x \in Explains : ExplainPost(x)
    \/ \E x \in Explains : ExplainOpened(x)
    \/ \E x \in Explains : ExplainFails(x)
    \/ \E x \in Explains, content \in ChunkContents : ExplainChunk(x, content)
    \/ \E x \in Explains : ExplainEnd(x)
    \/ \E x \in Explains : ExplainAbort(x)

(***************************************************************************)
(* LogsPage (frontend/src/lib/utils.ts): startLogStream, stopLogStream and *)
(* the handlers of the WebSockets it creates.  Sockets are numbered in the *)
(* order of their creation; the handlers of a socket stay attached to it   *)
(* after wsRef has moved on.                                               *)
(***************************************************************************)
MaxSock == 4

Sockets == 1..MaxSock

\* sockets created so far
Created == Cardinality({s \in Sockets : sockets[s] # "none"})

\* ws.close(): the closing handshake starts unless the socket is closing or closed
closeSocket(socks, s) ==
    IF s # 0 /\ socks[s] \in {"connecting", "open"} THEN [socks EXCEPT ![s] = "closing"]
    ELSE socks

PageInit ==
    /\ sockets = [s \in Sockets |-> "none"]
    /\ wsRef = 0
    /\ pageIsStreaming = FALSE
    /\ pageSeen = FALSE

PageIdle == PageInit

\* LogsPage renders again: startLogStream is recreated over the current state
PageRender ==
    /\ UNCHANGED nonPageVars
    /\ pageSeen # pageIsStreaming
    /\ pageSeen' = pageIsStreaming
    /\ UNCHANGED <<sockets, wsRef, pageIsStreaming>>

\* startLogStream() with a pod selected: returns if isStreaming, else closes
\* the socket of wsRef, creates the next one and attaches its handlers
StartLogStream ==
    /\ UNCHANGED nonPageVars
    /\ selection
    /\ ~pageSeen
    /\ Created < MaxSock
    /\ sockets' = [closeSocket(sockets, wsRef) EXCEPT ![Created + 1] = "connecting"]
    /\ wsRef' = Created + 1
    /\ UNCHANGED <<pageIsStreaming, pageSeen>>

\* ws.onopen of socket s
WsOpen(s) ==
    /\ UNCHANGED nonPageVars
    /\ sockets[s] = "connecting"
    /\ sockets' = [sockets EXCEPT ![s] = "open"]
    /\ pageIsStreaming' = TRUE
    /\ UNCHANGED <<wsRef, pageSeen>>

\* ws.onmessage of socket s with the stream_ended frame
WsStreamEnded(s) ==
    /\ UNCHANGED nonPageVars
    /\ sockets[s] = "open"
    /\ pageIsStreaming
    /\ pageIsStreaming' = FALSE
    /\ UNCHANGED <<sockets, wsRef, pageSeen>>

\* ws.onerror of socket s: the connection fails, the close event follows
WsError(s) ==
    /\ UNCHANGED nonPageVars
    /\ sockets[s] \in {"connecting", "open"}
    /\ sockets' = [sockets EXCEPT ![s] = "closing"]
    /\ pageIsStreaming' = FALSE
    /\ UNCHANGED <<wsRef, pageSeen>>

\* ws.onclose of socket s: the handshake has finished, or the server or the
\* network closed the connection
WsClose(s) ==
    /\ UNCHANGED nonPageVars
    /\ sockets[s] \in {"connecting", "open", "closing"}
    /\ sockets' = [sockets EXCEPT ![s] = "closed"]
    /\ pageIsStreaming' = FALSE
    /\ UNCHANGED <<wsRef, pageSeen>>

\* stopLogStream()
StopLogStream ==
    /\ UNCHANGED nonPageVars
    /\ wsRef # 0
    /\ sockets' = closeSocket(sockets, wsRef)
    /\ wsRef' = 0
    /\ pageIsStreaming' = FALSE
    /\ UNCHANGED pageSeen

PageNext ==
    \/ PageRender
    \/ StartLogStream
    \/ \E s \in Sockets : WsOpen(s)
    \/ \E s \in Sockets : WsStreamEnded(s)
    \/ \E s \in Sockets : WsError(s)
    \/ \E s \in Sockets : WsClose(s)
    \/ StopLogStream

(***************************************************************************)
(* The redaction filter as a pure function: the inputs are texts built     *)
(* around one secret of a recognised shape, alone or between other words.  *)
(***************************************************************************)
MaxPad == 1

PadBefore == <<"i", "d", " ">>
PadAfter == <<" ", "o", "k">>

RECURSIVE Repeat(_, _)
Repeat(s, n) == IF n = 0 THEN <<>> ELSE s \o Repeat(s, n - 1)

KeyNames == { <<"p", "w", "d">>, <<"k", "e", "y">>, <<"t", "o", "k", "e", "n">>,
              <<"a", "p", "i", "_", "k", "e", "y">>,
              <<"p", "a", "s", "s", "w", "o", "r", "d">> }
Separators == { <<"=">>, <<":", " ">> }
Quotings == { <<>>, <<"\"">> }
SecretValues == { <<"h", "u", "n", "t", "e", "r", "2">>, <<"x", "1">>, <<"a">>,
                  <<"k", "e", "y">> }

AccessKeyId == <<"A", "K", "I", "A", "I", "O", "S", "F", "O", "D", "N", "N", "7",
                 "E", "X", "A", "M", "P", "L", "E">>
JwtToken == <<"e", "y", "J", "h", "b", ".", "e", "y", "J", "z", "d", ".", "s", "i", "g">>
Base64Run == <<"c", "2", "V", "j", "c", "m", "V", "0", "L", "X", "Z", "h", "b", "H",
               "V", "l", "L", "T", "E", "y", "M", "z", "Q", "1">>

\* [body, secret]: a text of a recognised secret shape and the secret in it
SecretCases ==
    { [body |-> k \o s \o q \o v \o q, secret |-> v] :
          k \in KeyNames, s \in Separators, q \in Quotings, v \in SecretValues }
    \cup { [body |-> b, secret |-> b] : b \in {AccessKeyId, JwtToken, Base64Run} }

RedactInit ==
    /\ \E c \in SecretCases, nb \in 0..MaxPad, na \in 0..MaxPad :
          /\ text = Repeat(PadBefore, nb) \o c.body \o Repeat(PadAfter, na)
          /\ secret = c.secret
    /\ out1 = <<>>
    /\ out2 = <<>>
    /\ rpc = "in"
    /\ userPrompt = <<>>

\* redactSecrets(text)
Redact ==
    /\ UNCHANGED nonRedactVars
    /\ rpc = "in"
    /\ out1' = redactSecrets(text)
    /\ rpc' = "once"
    /\ UNCHANGED <<text, secret, out2, userPrompt>>

\* redactSecrets(redactSecrets(text))
RedactAgain ==
    /\ UNCHANGED nonRedactVars
    /\ rpc = "once"
    /\ out2' = redactSecrets(out1)
    /\ rpc' = "twice"
    /\ UNCHANGED <<text, secret, out1, userPrompt>>

\* the questions a request carries: none, an empty one, one that quotes a word
Questions == { Absent, Given(<<>>), Given(<<"w", "h", "y", "?">>) }

\* POST /api/ai/explain with recentLogChunk = text: analyzeStream builds the
\* request to the reasoning service
AnalyzeStream(question) ==
    /\ UNCHANGED nonRedactVars
    /\ rpc = "in"
    /\ userPrompt' = userPromptOf(question, text)
    /\ rpc' = "asked"
    /\ UNCHANGED <<text, secret, out1, out2>>

RedactIdle ==
    /\ text = <<>>
    /\ secret = <<>>
    /\ out1 = <<>>
    /\ out2 = <<>>
    /\ rpc = "idle"
    /\ userPrompt = <<>>

ServerIdle == ServerInit

(***************************************************************************)
(* Specifications                                                          *)
(***************************************************************************)
InitRedact == RedactInit /\ ServerIdle /\ BufferIdle /\ AnalystIdle /\ ExplainIdle /\ PageIdle
NextRedact ==
    \/ Redact
    \/ RedactAgain
    \/ \E question \in Questions : AnalyzeStream(question)
SpecRedact == InitRedact /\ [][NextRedact]_vars

Init == ServerInit /\ RedactIdle /\ BufferIdle /\ AnalystIdle /\ ExplainIdle /\ PageIdle
Next == ServerNext
Spec == Init /\ [][Next]_vars

InitBuffer == BufferInit /\ ServerIdle /\ RedactIdle /\ AnalystIdle /\ ExplainIdle /\ PageIdle
NextBuffer ==
    \/ \E shape \in ChunkShapes : AddLogChunk(shape)
    \/ \E shape \in FrameShapes : ViewerMessage(shape)
SpecBuffer == InitBuffer /\ [][NextBuffer]_vars

InitAnalyst == AnalystInit /\ ServerIdle /\ RedactIdle /\ BufferIdle /\ ExplainIdle /\ PageIdle
NextAnalyst == AnalystNext
SpecAnalyst == InitAnalyst /\ [][NextAnalyst]_vars

InitExplain == ExplainInit /\ ServerIdle /\ RedactIdle /\ BufferIdle /\ AnalystIdle /\ PageIdle
NextExplain == ExplainNext
SpecExplain == InitExplain /\ [][NextExplain]_vars

InitPage ==
    PageInit /\ ServerIdle /\ RedactIdle /\ BufferIdle /\ AnalystIdle /\ ExplainIdle
NextPage == PageNext
SpecPage == InitPage /\ [][NextPage]_vars

\* C2: the result of redactSecrets contains no occurrence of the secret value
\* of its input, whatever the shape and the position of the secret.
C2_NoSecretInOutput == rpc # "in" => ~Contains(out1, secret)

\* C5: redactSecrets is idempotent: a second pass changes nothing.
C5_Idempotent == rpc = "twice" => out2 = out1

\* C21: the log excerpt of every request analyzeStream builds for the
\* reasoning service is the result of redactSecrets on the excerpt received,
\* with a user question and without one.
C21_ExcerptIsRedacted ==
    rpc = "asked" =>
        /\ ExcerptOf(userPrompt) = redactSecrets(text)
        /\ \A i \in 1..Len(userPrompt) : i # Len(userPrompt) - 1 => userPrompt[i] # text

\* C21 happens: a request with a user question was built from an excerpt that
\* redactSecrets changes.
C21_Witness ==
    /\ rpc = "asked"
    /\ userPrompt[1] = <<"User question: ">>
    /\ Contains(ExcerptOf(userPrompt), REDACTED)
    /\ ExcerptOf(userPrompt) # text

(***************************************************************************)
(* The server: claims checked on Spec                                      *)
(***************************************************************************)
\* C1: every text frame sent to a viewer over /ws/logs and every line appended
\* to the analysis buffer has first passed through redactSecrets, in real
\* sessions and in demo replay alike.
C1_AllThroughRedactSecrets ==
    /\ \A c \in Conns : \A i \in 1..Len(sent[c]) :
          sent[c][i].kind = "text" => sent[c][i].gate
    /\ \A i \in 1..Len(logBuffer) : logBuffer[i].gate

\* C3: in one LogStreamer at most one upstream stream that is open and not
\* destroyed exists per key, whatever the interleaving of starts, stops and
\* upstream events; a completed second start leaves the earlier stream destroyed.
C3_OneStreamPerKey ==
    \A c, d \in Conns :
        (c # d /\ stream[c] = "open" /\ stream[d] = "open" /\ inst[c] = inst[d])
            => copts[c].key # copts[d].key

\* C4: once a /ws/logs connection has closed, no upstream stream opened for it
\* is open and activeStreams holds no entry for it, also when the close came
\* before the startLogStream promise resolved.
C4_ClosedHasNoStream ==
    \A c \in Conns :
        cstate[c] = "closed" =>
            /\ stream[c] # "open"
            /\ \A i \in Instances, k \in Keys : activeStreams[i][k] # c

\* the upstream source of connection c has ended naturally: the end event of a
\* real stream, or a demo replay that has emitted its last line and whose
\* timer has run out
SourceEnded(c) ==
    \/ stream[c] = "ended"
    \/ cmode[c] = "demo" /\ demoIndex[c] = Len(MOCK_LOGS) /\ ~demoTimer[c]

\* C9: when the upstream source of an open connection has ended naturally, the
\* viewer has received exactly one stream_ended event and no log chunk after
\* it, for a real stream and for a demo replay.
C9_StreamEndedOnce ==
    \A c \in Conns :
        (cstate[c] = "open" /\ SourceEnded(c)) =>
            \E i \in 1..Len(sent[c]) :
                /\ sent[c][i] = StreamEnded
                /\ \A j \in 1..Len(sent[c]) :
                      /\ j # i => sent[c][j] # StreamEnded
                      /\ j > i => sent[c][j].kind # "text"

\* a since value as the interface asks for it: digits followed by s, m or h
WellFormedSince(v) ==
    /\ Len(v) >= 2
    /\ \A i \in 1..(Len(v) - 1) : v[i] \in Digit
    /\ v[Len(v)] \in {"s", "m", "h"}

\* since values of other shapes: well formed, and malformed in each way
SinceSamples == { <<"5", "m">>, <<"1", "0", "s">>, <<"2", "h">>, <<"5", "x">>, <<"m">>,
                  <<"5">>, <<"5", "m", "m">>, <<"x", "5", "m">>, <<"5", "M">>,
                  <<"5", " ", "m">>, <<"-", "5", "m">> }

\* connection c asked for a real stream with a since value that is not well formed
BadSince(c) ==
    /\ cmode[c] = "real"
    /\ copts[c].since.present
    /\ ~WellFormedSince(copts[c].since.val)

\* C10: a startLogStream call with a since value that is not digits followed
\* by s, m or h has failed with a descriptive error, no upstream stream was
\* created for it, activeStreams holds no entry of that call, and the viewer
\* got a structured error event; parseDuration accepts exactly the values of
\* that form.
C10_InvalidSinceRejected ==
    /\ \A v \in SinceSamples : parseDuration(v).ok <=> WellFormedSince(v)
    /\ \A c \in Conns :
          BadSince(c) =>
              /\ call[c] = "failed"
              /\ stream[c] = "none"
              /\ \A i \in Instances, k \in Keys : activeStreams[i][k] # c
              /\ sent[c] = << ErrorFrame(<<"Failed to start log stream: ",
                                           "Invalid duration format: ">>
                                         \o copts[c].since.val) >>

\* C10 witness: a call with since=5x has been made on a key that is in use by
\* another connection
C10_Witness ==
    \E c \in Conns :
        /\ BadSince(c)
        /\ call[c] = "failed"
        /\ \E d \in Conns : d # c /\ copts[d].key = copts[c].key /\ cmode[d] = "real"

(***************************************************************************)
(* The buffers: claims checked on SpecBuffer                               *)
(***************************************************************************)
\* the texts of the lines in the backend buffer
BufferTexts == [i \in 1..Len(logBuffer) |-> logBuffer[i].text]

\* C6: after any sequence of insertions the backend buffer holds at most 2000
\* lines and the viewer buffer at most 1000, and what each holds is exactly the
\* most recently inserted lines in insertion order.
C6_BuffersKeepMostRecent ==
    /\ Len(logBuffer) <= 2000
    /\ Len(logBufferRef) <= 1000
    /\ bside = "backend" =>
          /\ Len(logBuffer) = Min(Len(inserted), 2000)
          /\ BufferTexts = SubSeq(inserted, Len(inserted) - Len(logBuffer) + 1,
                                  Len(inserted))
    /\ bside = "viewer" =>
          /\ Len(logBufferRef) = Min(Len(inserted), 1000)
          /\ logBufferRef = SubSeq(inserted, Len(inserted) - Len(logBufferRef) + 1,
                                   Len(inserted))

\* C6 witness: more lines than the capacity have been inserted into the backend
\* buffer, the last of them by a chunk of three lines
C6_Witness ==
    /\ bside = "backend"
    /\ Len(inserted) > 2002
    /\ Len(logBuffer) = 2000

\* C24: in a session of the viewer that has received n lines, exactly
\* floor(n / 10) triggers have been proposed, for every n, also beyond the
\* capacity of the viewer's buffer.
C24_OneProposalPerTenLines ==
    bside = "viewer" => proposed = Len(inserted) \div 10

(***************************************************************************)
(* The analyst component: claims checked on SpecAnalyst                    *)
(***************************************************************************)
\* the fragments of request r that the messages show
ShownFragments(r) ==
    { f \in UNION { {m.content[i] : i \in 1..Len(m.content)} :
                        m \in {messages[j] : j \in 1..Len(messages)} } : f.req = r }

\* C7: once a request has been aborted because a newer request started, the
\* messages show no fragment of it beyond those written before the abort, and
\* no error text of it.
C7_NoFragmentAfterAbort ==
    \A r \in 1..Len(requests) :
        requests[r].superseded =>
            \A f \in ShownFragments(r) : 1 <= f.k /\ f.k <= requests[r].gotThen

\* C7 witness: a request was aborted after its first fragment, and the request
\* that superseded it has gone on to write a fragment of its own
C7_Witness ==
    \E r \in 1..Len(requests) :
        /\ requests[r].superseded
        /\ requests[r].state = "aborted"
        /\ requests[r].gotThen >= 1
        /\ \E q \in (r + 1)..Len(requests) : requests[q].got >= 1

\* C8: of two trigger proposals less than 5 seconds apart at most one leads to
\* a call of the analysis endpoint: any two automatic requests were proposed at
\* least 5000 ms apart.
C8_OneCallPerWindow ==
    \A r, q \in 1..Len(requests) :
        (r < q /\ requests[r].kind = "auto" /\ requests[q].kind = "auto")
            => requests[q].at - requests[r].at >= 5000

(***************************************************************************)
(* The server: further claims checked on Spec                              *)
(***************************************************************************)
\* the error frames among the frames f
ErrorFrames(f) == SelectSeq(f, LAMBDA x : x.kind = "error")

C12_ShutdownLeavesNoStream ==
    proc = "stopping" =>
        /\ \A i \in Instances, k \in Keys : activeStreams[i][k] = 0
        /\ \A c \in Conns : stream[c] # "open"

\* C13: an upstream stream is open only if the activeStreams map of the
\* LogStreamer the close and shutdown handlers consult (the global
\* logStreamer) maps its key to that stream.
C13_OpenOnlyIfRegistered ==
    \A c \in Conns :
        stream[c] = "open" =>
            /\ logStreamer # 0
            /\ activeStreams[logStreamer][copts[c].key] = c

\* C15: a step in which the upstream stream of one session ends or reports an
\* error changes no entry of activeStreams that belongs to another session,
\* and leaves every other open stream open.
C15_EndRemovesOnlyItsOwnEntry ==
    [][ \A c \in Conns :
          (stream[c] = "open" /\ stream'[c] \in {"ended", "errored"}) =>
              /\ \A i \in Instances, k \in Keys :
                    activeStreams[i][k] \notin {0, c} =>
                        activeStreams'[i][k] = activeStreams[i][k]
              /\ \A d \in Conns \ {c} : stream[d] = "open" => stream'[d] = "open" ]_vars

\* C16: a chunk that arrives on a session whose filter pattern is not a valid
\* regular expression does not end the server: no exception escapes the chunk
\* handler.
C16_InvalidPatternTolerated == proc # "crashed"

\* C17: within one session the chunks delivered to the viewer are chunks
\* received from upstream, in the order received (some may be filtered out),
\* and stream_ended is delivered after every chunk: the text frames of a
\* connection carry increasing chunk numbers up to the number received, and
\* no text frame follows stream_ended.
C17_DeliveredInOrder ==
    \A c \in Conns : \A i, j \in 1..Len(sent[c]) :
        /\ sent[c][i].kind = "text" =>
              /\ 1 <= sent[c][i].n
              /\ sent[c][i].n <= IF cmode[c] = "demo" THEN demoIndex[c] ELSE upstream[c]
        /\ (i < j /\ sent[c][i].kind = "text" /\ sent[c][j].kind = "text") =>
              sent[c][i].n < sent[c][j].n
        /\ (i < j /\ sent[c][i] = StreamEnded) => sent[c][j].kind # "text"
        /\ sent[c][i] = StreamEnded => stream[c] = "ended"

\* C17 witness: a filtered session received two chunks, the first was filtered
\* out, the second was delivered, then the stream ended
C17_Witness ==
    \E c \in Conns :
        /\ copts[c].regex.present
        /\ upstream[c] = 2
        /\ Len(sent[c]) = 2
        /\ sent[c][1].kind = "text" /\ sent[c][1].n = 2
        /\ sent[c][2] = StreamEnded

\* C18: the analysis buffer a session appends to is its own: it is empty in
\* the step in which a real or demo session starts, so that it never holds
\* the lines of another session.
C18_BufferStartsEmpty ==
    [][ \A c \in Conns :
          (cstate[c] = "new" /\ cstate'[c] = "open" /\ cmode'[c] \in {"real", "demo"})
              => logBuffer' = <<>> ]_vars

\* C19: every open /ws/logs connection, real session or demo session, has the
\* keepalive interval running that sends its pings.
C19_KeepaliveWhileOpen ==
    \A c \in Conns :
        (cstate[c] = "open" /\ cmode[c] \in {"real", "demo"}) => pingInterval[c]

\* C20: the server calls send or ping only on a connection whose readyState is
\* OPEN. A step that passes a frame to connection.send leaves the connection
\* open, and had it open before unless it is the step in which the connection
\* arrives; a step that calls connection.ping has the connection open. A data,
\* error or end callback or a demo timer that fires on a closed connection
\* sends nothing, and ends the process only where the chunk handler throws on
\* an invalid pattern before the callback is reached.
C20_SendOnlyWhenOpen ==
    [][ \A c \in Conns :
          /\ Len(sent'[c]) > Len(sent[c]) =>
                (cstate'[c] = "open" /\ cstate[c] \in {"new", "open"})
          /\ pings'[c] > pings[c] => (cstate[c] = "open" /\ cstate'[c] = "open")
          /\ (cstate[c] = "closed" /\ Running') => sent'[c] = sent[c]
          /\ (cstate[c] = "closed" /\ proc' = "crashed") =>
                \E d \in Conns : /\ stream[d] = "open"
                                 /\ copts[d].regex.present
                                 /\ ~RegExpValid(copts[d].regex.val) ]_vars

\* C20 happens: a connection was pinged while open; after its peer and the peer
\* of a demo session had closed, a chunk and the end of its stream arrived and
\* the demo timer fired, and nothing was sent.
C20_Witness ==
    \E c, d \in Conns :
        /\ cstate[c] = "closed" /\ cmode[c] = "real" /\ pings[c] = 1
        /\ stream[c] = "ended" /\ upstream[c] >= 1 /\ sent[c] = <<>>
        /\ cstate[d] = "closed" /\ cmode[d] = "demo"
        /\ ~demoTimer[d] /\ demoIndex[d] < Len(MOCK_LOGS)

\* stopLogStream(k) runs on the current LogStreamer in this step, on behalf of
\* connection c, and finds no entry for k: at the start of startLogStream, or in
\* the close handler
StopsAbsentKey(c) ==
    /\ logStreamer # 0
    /\ \/ /\ cstate[c] = "new" /\ cmode'[c] = "real"
          /\ activeStreams[logStreamer][copts'[c].key] = 0
       \/ /\ cstate[c] = "open" /\ cstate'[c] = "closed"
          /\ cmode[c] = "real" /\ streamId[c] # 0
          /\ activeStreams[logStreamer][streamId[c]] = 0

\* C22: stopLogStream with a key that has no entry is a no-op: the process goes
\* on, activeStreams is unchanged, no stream is destroyed and every other
\* session is as it was.
C22_StopAbsentKeyIsNoOp ==
    [][ \A c \in Conns :
          StopsAbsentKey(c) =>
              /\ proc' = proc
              /\ activeStreams' = activeStreams
              /\ \A d \in Conns : stream'[d] = "destroyed" => stream[d] = "destroyed"
              /\ \A d \in Conns \ {c} : stream'[d] = stream[d] /\ sent'[d] = sent[d] ]_vars

\* C22 happens: a connection closed after its stream had ended, so that its
\* close handler stopped a key without entry, while another session streams on.
C22_Witness ==
    \E c, d \in Conns :
        /\ cstate[c] = "closed" /\ cmode[c] = "real" /\ streamId[c] # 0
        /\ stream[c] = "ended" /\ inst[c] = logStreamer
        /\ copts[d].key # copts[c].key
        /\ stream[d] = "open" /\ activeStreams[logStreamer][copts[d].key] = d

\* C23: the close of connection a neither destroys nor unregisters the stream
\* that delivers to another connection b that is open, also when b started its
\* session for the same key after a did.
C23_CloseStopsOnlyItsOwnSession ==
    [][ \A a \in Conns : \A b \in Conns \ {a} :
          ( /\ cstate[a] = "open" /\ cstate'[a] = "closed"
            /\ cstate[b] = "open" /\ stream[b] = "open" ) =>
              /\ stream'[b] = "open"
              /\ \A i \in Instances : \A k \in Keys :
                    activeStreams[i][k] = b => activeStreams'[i][k] = b ]_vars

\* C26: a startLogStream call that fails leaves the registry as it was before
\* the call. Stated for the call that fails in the step it is made (an invalid
\* since): activeStreams is unchanged and every stream that was open is open.
C26_FailedStartLeavesRegistry ==
    [][ \A c \in Conns :
          (cstate[c] = "new" /\ call'[c] = "failed") =>
              /\ activeStreams' = activeStreams
              /\ \A d \in Conns : stream[d] = "open" => stream'[d] = "open" ]_vars

(***************************************************************************)
(* The analyst component: further claims checked on SpecAnalyst            *)
(***************************************************************************)
\* the requests whose fetch or read is pending
InFlightRequests == { r \in 1..Len(requests) : requests[r].state \in InFlight }

\* C14: for one viewer at most one analysis request, automatic or user
\* question, is in flight at any time, and it is the one of the current
\* abort controller.
C14_OneRequestInFlight ==
    /\ Cardinality(InFlightRequests) <= 1
    /\ \A r \in InFlightRequests : abortControllerRef = r

\* C14 witness: a user question has superseded an automatic request that was
\* reading its response, and is itself in flight
C14_Witness ==
    \E r, q \in 1..Len(requests) :
        /\ r < q
        /\ requests[r].kind = "auto" /\ requests[r].state = "aborted"
        /\ requests[r].gotThen >= 1
        /\ requests[q].kind = "user" /\ requests[q].state \in InFlight

\* C25: the cooldown counts from a trigger that invoked the analysis: the time
\* the debounce compares with is the time of an automatic request that was
\* made, never the time of a proposal that was itself suppressed.
C25_CooldownFromSuccessfulTrigger ==
    lastAnalysisTime # Null =>
        \E r \in 1..Len(requests) :
            requests[r].kind = "auto" /\ requests[r].at = lastAnalysisTime

\* C28: the message of a request that failed after k fragments had been shown
\* consists of those k fragments in arrival order followed by exactly one
\* error fragment.
C28_FailureKeepsFragments ==
    \A r \in 1..Len(requests) :
        requests[r].state = "failed" =>
            \E i \in 1..Len(messages) :
                /\ messages[i].id = requests[r].messageId
                /\ messages[i].content = Content(r, requests[r].got) \o ErrorContent(r)

\* C29: once a request has reached a terminal state (complete, aborted or
\* failed), the message it wrote to is no longer marked as streaming, unless
\* a request still in flight writes to a message of the same id. This is the
\* safety half of the claim; it includes requests aborted by a newer one.
C29_TerminalIsNotStreaming ==
    \A r \in 1..Len(requests) :
        ( /\ requests[r].state \in {"complete", "aborted", "failed"}
          /\ \A q \in InFlightRequests : requests[q].messageId # requests[r].messageId ) =>
            \A i \in 1..Len(messages) :
                messages[i].id = requests[r].messageId => ~messages[i].isStreaming

(***************************************************************************)
(* The explain handler: claims checked on SpecExplain                      *)
(***************************************************************************)
\* C27: once the viewer has aborted an analysis request, the handler pulls no
\* further chunk from the stream of the reasoning service and writes nothing
\* further for that request.
C27_AbortStopsTheHandler ==
    [][ \A x \in Explains :
          client[x] = "aborted" =>
              /\ pulled'[x] = pulled[x]
              /\ written'[x] = written[x] ]_vars

(***************************************************************************)
(* LogsPage: claims checked on SpecPage                                    *)
(***************************************************************************)
\* C30: an event of a socket that wsRef no longer refers to never sets
\* isStreaming to false while the socket of wsRef, the one created last, is
\* open.
C30_ReplacedSocketLeavesFlag ==
    [][ \A s \in Sockets :
          ( /\ sockets'[s] # sockets[s]
            /\ wsRef # 0 /\ wsRef' = wsRef /\ s # wsRef
            /\ sockets[wsRef] = "open" /\ sockets'[wsRef] = "open"
            /\ pageIsStreaming ) => pageIsStreaming' ]_vars

=============================================================================
